---------------------------- MODULE Spec2Model ----------------------------
(***************************************************************************)
(* Model of thrive::RNG (src/engine/rng.cpp): a seed, a std::mt19937       *)
(* generator seeded from it, and a std::random_device that mints seeds.    *)
(*                                                                         *)
(* The generator is a Mersenne Twister of reduced size (W-bit words, N     *)
(* state words); int and Seed are W-bit as well, so that the generator's   *)
(* range covers the whole range of int, as it does for mt19937 and a       *)
(* 32-bit int.  A double is an exact rational with denominator Den.        *)
(***************************************************************************)
EXTENDS Integers, Sequences, FiniteSets, TLC

\* ----------------------------------------------------------------- bounds
W == 4              \* bits of a generator word, of a Seed and of an int
N == 3              \* words of generator state
MaxSeed == 1        \* seeds the callers pass: 0..MaxSeed
MaxDraws == 2       \* draws recorded (and allowed) after one seeding

Radix == 2 ^ W
WordMax == Radix - 1
IntMin == -(Radix \div 2)
IntMax == (Radix \div 2) - 1
Seeds == 0 .. MaxSeed
Entropy == MaxSeed .. (MaxSeed + 1)    \* values a random_device delivers
Den == Radix * Radix                   \* denominator of a modelled double

\* ------------------------------------------------- std::mt19937 (reduced)
RECURSIVE Xor(_, _)
Xor(a, b) ==
    IF a = 0 THEN b
    ELSE IF b = 0 THEN a
    ELSE ((a + b) % 2) + 2 * Xor(a \div 2, b \div 2)

\* mt19937's initialization multiplier f = 1812433253 and twist matrix
\* coefficient a = 0x9908B0DF (its low 16 bits are 0xB0DF = 45279), cut to
\* the word size.
InitMultiplier == 1812433253 % Radix
TwistCoeff == 45279 % Radix

\* x[i] = f * (x[i-1] xor (x[i-1] >> (w-2))) + i, for the words after x[0]
RECURSIVE SeedWords(_, _)
SeedWords(xs, i) ==
    IF i > N THEN xs
    ELSE LET prev == xs[i - 1]
             nxt == (InitMultiplier * Xor(prev, prev \div (2 ^ (W - 2)))
                     + (i - 1)) % Radix
         IN  SeedWords(Append(xs, nxt), i + 1)

\* mt19937(seed) and mt19937::seed(seed): the whole state is rebuilt from
\* the seed and the position is set past the last word.
MtSeed(seed) == [x |-> SeedWords(<<seed % Radix>>, 2), p |-> N]

\* The twist: regenerates the N words in place, word k from its upper bit,
\* the lower bits of word k+1 and the word M places on (M = N - 1 here).
RECURSIVE Twist(_, _)
Twist(xs, k) ==
    IF k > N THEN xs
    ELSE LET up == xs[k] - (xs[k] % (2 ^ (W - 1)))
             lo == xs[(k % N) + 1] % (2 ^ (W - 1))
             y == up + lo
             far == xs[((k + N - 2) % N) + 1]
             mag == IF y % 2 = 1 THEN TwistCoeff ELSE 0
             v == Xor(Xor(far, y \div 2), mag)
         IN  Twist([xs EXCEPT ![k] = v], k + 1)

Temper(z) == Xor(z, z \div (2 ^ (W \div 2)))

\* mt19937::operator(): twists when the words are used up, then returns the
\* tempered word at the position and moves the position on.
MtDraw(mt) ==
    LET xs == IF mt.p >= N THEN Twist(mt.x, 1) ELSE mt.x
        q == IF mt.p >= N THEN 0 ELSE mt.p
    IN  [out |-> Temper(xs[q + 1]), mt |-> [x |-> xs, p |-> q + 1]]

\* mt19937's default_seed, the state of a default-constructed generator.
DefaultSeed == 5489


\* ------------------------------------- std::uniform_int_distribution<int>
\* int <-> unsigned conversions of W-bit integers
ToUnsigned(i) == i % Radix
ToInt(u) == IF (u % Radix) > IntMax THEN (u % Radix) - Radix ELSE u % Radix

\* The rejection loop `do ret = urng() & mask; while (ret >= past)`.  The
\* loop has no bound in the library; `fuel` only stops the evaluation on a
\* generator that would cycle without ever passing, and done = FALSE then
\* says that the call does not return.
RECURSIVE DrawUntil(_, _, _, _)
DrawUntil(mt, modulus, past, fuel) ==
    LET d == MtDraw(mt)
        u == d.out % modulus
    IN  IF u < past THEN [done |-> TRUE, out |-> u, mt |-> d.mt]
        ELSE IF fuel = 0 THEN [done |-> FALSE, out |-> u, mt |-> d.mt]
        ELSE DrawUntil(d.mt, modulus, past, fuel - 1)

LoopFuel == Radix

\* libstdc++ (bits/uniform_int_dist.h): scale the generator's range down to
\* the requested one, rejecting the incomplete last bucket.
LibstdcxxInt(mt, a, b) ==
    LET urange == (ToUnsigned(b) - ToUnsigned(a)) % Radix
    IN  IF WordMax > urange
        THEN LET uerange == urange + 1
                 scaling == WordMax \div uerange
                 past == uerange * scaling
                 d == DrawUntil(mt, Radix, past, LoopFuel)
             IN  [done |-> d.done, mt |-> d.mt,
                  ret |-> ToInt((d.out \div scaling) + ToUnsigned(a))]
        ELSE LET d == MtDraw(mt)
             IN  [done |-> TRUE, mt |-> d.mt,
                  ret |-> ToInt(d.out + ToUnsigned(a))]

\* the least w with 2^w >= n
RECURSIVE BitsFor(_, _)
BitsFor(n, w) == IF 2 ^ w >= n THEN w ELSE BitsFor(n, w + 1)

\* libc++ (__random/uniform_int_distribution.h): a range of one value is
\* answered without the generator; otherwise the low bits of a draw are
\* taken until they fall below the range's size.
LibcxxInt(mt, a, b) ==
    LET Rp == (ToUnsigned(b) - ToUnsigned(a) + 1) % Radix
    IN  IF Rp = 1 THEN [done |-> TRUE, mt |-> mt, ret |-> a]
        ELSE IF Rp = 0
        THEN LET d == MtDraw(mt)
             IN  [done |-> TRUE, mt |-> d.mt, ret |-> ToInt(d.out)]
        ELSE LET d == DrawUntil(mt, 2 ^ BitsFor(Rp, 0), Rp, LoopFuel)
             IN  [done |-> d.done, mt |-> d.mt,
                  ret |-> ToInt(d.out + ToUnsigned(a))]

Libs == {"libstdc++", "libc++"}

\* std::uniform_int_distribution<int> dis(a, b); dis(mt)
UniformInt(lib, mt, a, b) ==
    IF lib = "libstdc++" THEN LibstdcxxInt(mt, a, b) ELSE LibcxxInt(mt, a, b)

\* ------------------------------------ std::uniform_real_distribution<double>
\* generate_canonical<double, 53> takes two words of a 32-bit generator, the
\* first as the low digit; the result is (b - a) * canonical + a.  The value
\* is kept exactly, as the numerator over Den.
UniformReal(mt, a, b) ==
    LET d1 == MtDraw(mt)
        d2 == MtDraw(d1.mt)
        num == d1.out + Radix * d2.out
    IN  [done |-> TRUE, mt |-> d2.mt, ret |-> a * Den + (b - a) * num]

\* ------------------------------------------------------------ thrive::RNG
\* RNG::Implementation is a record of m_seed and m_mt.  Its random_device
\* m_rd keeps no state of its own: what a read of it delivers is an input,
\* rd, of the operations that can read it.

\* as ImplementationSeeded, but with m_mt(m_rd()) for m_mt(seed)
ImplementationSeeded_fromDevice(seed, rd) ==
    [m_seed |-> seed, m_mt |-> MtSeed(rd)]

ImplementationSeeded(seed, rd) ==
    [m_seed |-> seed, m_mt |-> MtSeed(seed)]

\* as ImplementationDefault, but without `m_mt = std::mt19937(m_seed)`
ImplementationDefault_unseeded(rd) ==
    [m_seed |-> rd, m_mt |-> MtSeed(DefaultSeed)]

\* m_mt is default-constructed, then the body reads the device into m_seed
\* and assigns a generator seeded with m_seed.
ImplementationDefault(rd) ==
    LET constructed == [m_seed |-> 0, m_mt |-> MtSeed(DefaultSeed)]
        seeded == [constructed EXCEPT !.m_seed = rd]
    IN  [seeded EXCEPT !.m_mt = MtSeed(seeded.m_seed)]

\* as setSeed, but without `m_mt.seed(seed)`
setSeed_keepsGenerator(impl, seed) == [impl EXCEPT !.m_seed = seed]

\* as setSeed, but seeding the generator from m_seed before storing the seed
setSeed_staleSeed(impl, seed) ==
    [impl EXCEPT !.m_mt = MtSeed(impl.m_seed), !.m_seed = seed]

\* as setSeed, but without `m_seed = seed`
setSeed_forgetsSeed(impl, seed) == [impl EXCEPT !.m_mt = MtSeed(seed)]

setSeed(impl, seed) ==
    [impl EXCEPT !.m_seed = seed, !.m_mt = MtSeed(seed)]

getSeed(impl) == impl.m_seed

\* as generateRandomSeed, but applying the value it returns
generateRandomSeed_applied(impl, rd) ==
    [ret |-> rd, impl |-> [impl EXCEPT !.m_seed = rd, !.m_mt = MtSeed(rd)]]

generateRandomSeed(impl, rd) == [ret |-> rd, impl |-> impl]

getDouble(impl, min, max) ==
    LET r == UniformReal(impl.m_mt, min, max)
    IN  [done |-> r.done, ret |-> r.ret, impl |-> [impl EXCEPT !.m_mt = r.mt]]

\* as getInt, but with the distribution over [min, max + 1]
getInt_offByOne(impl, lib, min, max) ==
    LET r == UniformInt(lib, impl.m_mt, min, max + 1)
    IN  [done |-> r.done, ret |-> r.ret, impl |-> [impl EXCEPT !.m_mt = r.mt]]

\* as getInt, but with the distribution drawing from a copy of m_mt
getInt_onCopy(impl, lib, min, max) ==
    LET r == UniformInt(lib, impl.m_mt, min, max)
    IN  [done |-> r.done, ret |-> r.ret, impl |-> impl]

getInt(impl, lib, min, max) ==
    LET r == UniformInt(lib, impl.m_mt, min, max)
    IN  [done |-> r.done, ret |-> r.ret, impl |-> [impl EXCEPT !.m_mt = r.mt]]

\* as mersenneTwister, but returning std::mt19937 by value
mersenneTwister_byValue(obj) == [owner |-> "temporary"]

\* mersenneTwister() returns a reference: the place of the generator, here
\* the name of the object whose m_mt it is.
mersenneTwister(obj) == [owner |-> obj]

\* A caller draws one word through a reference g taken from object obj.
DrawThrough(g, obj, impl) ==
    LET d == MtDraw(impl.m_mt)
    IN  [ret |-> d.out,
         impl |-> IF g.owner = obj THEN [impl EXCEPT !.m_mt = d.mt] ELSE impl]

\* ----------------------------------------------------------- the program
\* One process owns an RNG `rng` and calls it.  Beside it, it keeps a second
\* RNG `twin`, built by RNG(seed) from the seed last given to rng, and gives
\* twin every sampling call it gives rng (and no other call), so that the
\* two can be compared call by call.

IntArgs == {<<1, 1>>, <<-1, 1>>, <<-5, 4>>, <<IntMin, IntMax>>, <<1, 0>>}
RealArgs == {<<0, 1>>, <<1, 1>>, <<1, 0>>}
SamplingOps == {"getInt", "getDouble"}
NoCall == [op |-> "none", a |-> 0, b |-> 0, ret |-> 0]

VARIABLES
    rng,        \* the instance: [m_seed, m_mt]
    twin,       \* RNG(seed) of the seed last assigned to rng, same draws
    lib,        \* the standard library of the build
    pc,         \* "running", or "aborted" once a library assertion failed
    call,       \* the last call on rng and what it returned
    twinRet,    \* what the same call returned on twin
    hist,       \* the drawing calls on rng since its seed was assigned,
                \* each with its result
    how,        \* "seeded": built by RNG(s); "default": built by RNG()
    reseed,     \* "never", or how the last setSeed found the generator
    assigned,   \* the seed last passed to RNG(s) or setSeed, or read by RNG()
    minted      \* generateRandomSeed was called since the seed was assigned

vars == <<rng, twin, lib, pc, call, twinRet, hist, how, reseed, assigned, minted>>

Init ==
    /\ lib \in Libs
    /\ pc = "running"
    /\ call = NoCall
    /\ twinRet = 0
    /\ hist = <<>>
    /\ reseed = "never"
    /\ minted = FALSE
    /\ \/ \E s \in Seeds, rd \in Entropy, rd2 \in Entropy :
            /\ rng = ImplementationSeeded(s, rd)
            /\ twin = ImplementationSeeded(s, rd2)
            /\ how = "seeded"
            /\ assigned = s
       \/ \E rd \in Entropy, rd2 \in Entropy :
            /\ rng = ImplementationDefault(rd)
            /\ twin = ImplementationSeeded(getSeed(rng), rd2)
            /\ how = "default"
            /\ assigned = rd

SetSeed(s) ==
    /\ pc = "running"
    /\ rng' = setSeed(rng, s)
    /\ \E rd2 \in Entropy : twin' = ImplementationSeeded(s, rd2)
    /\ call' = [op |-> "setSeed", a |-> s, b |-> 0, ret |-> 0]
    /\ twinRet' = 0
    /\ hist' = <<>>
    /\ reseed' = IF hist = <<>> THEN "fresh" ELSE "used"
    /\ assigned' = s
    /\ minted' = FALSE
    /\ UNCHANGED <<lib, pc, how>>

GetSeed ==
    /\ pc = "running"
    /\ call' = [op |-> "getSeed", a |-> 0, b |-> 0, ret |-> getSeed(rng)]
    /\ twinRet' = getSeed(twin)
    /\ UNCHANGED <<rng, twin, lib, pc, hist, how, reseed, assigned, minted>>

GenerateRandomSeed ==
    /\ pc = "running"
    /\ \E rd \in Entropy :
         LET r == generateRandomSeed(rng, rd)
         IN  /\ rng' = r.impl
             /\ call' = [op |-> "generateRandomSeed", a |-> 0, b |-> 0,
                         ret |-> r.ret]
    /\ twinRet' = 0
    /\ minted' = TRUE
    /\ UNCHANGED <<twin, lib, pc, hist, how, reseed, assigned>>

\* A sampling call whose result on rng is r and on twin is t.  With
\* min > max the distribution's precondition is violated: a build with
\* library assertions aborts, any other build carries on with the
\* distribution's arithmetic.
Sample(op, min, max, r, t) ==
    /\ pc = "running"
    /\ Len(hist) < MaxDraws
    /\ \/ /\ r.done /\ t.done
          /\ rng' = r.impl
          /\ twin' = t.impl
          /\ call' = [op |-> op, a |-> min, b |-> max, ret |-> r.ret]
          /\ twinRet' = t.ret
          /\ hist' = Append(hist, [op |-> op, a |-> min, b |-> max,
                                   ret |-> r.ret])
          /\ pc' = pc
       \/ /\ min > max
          /\ pc' = "aborted"
          /\ call' = [op |-> op, a |-> min, b |-> max, ret |-> 0]
          /\ UNCHANGED <<rng, twin, twinRet, hist>>
    /\ UNCHANGED <<lib, how, reseed, assigned, minted>>

GetInt(min, max) ==
    Sample("getInt", min, max, getInt(rng, lib, min, max),
           getInt(twin, lib, min, max))

GetDouble(min, max) ==
    Sample("getDouble", min, max, getDouble(rng, min, max),
           getDouble(twin, min, max))

\* A native caller takes the generator by mersenneTwister() and draws one
\* word through the reference; it does the same with twin.
UseGenerator ==
    /\ pc = "running"
    /\ Len(hist) < MaxDraws
    /\ LET r == DrawThrough(mersenneTwister("rng"), "rng", rng)
           t == DrawThrough(mersenneTwister("twin"), "twin", twin)
       IN  /\ rng' = r.impl
           /\ twin' = t.impl
           /\ call' = [op |-> "mersenneTwister", a |-> 0, b |-> 0, ret |-> r.ret]
           /\ twinRet' = t.ret
           /\ hist' = Append(hist, [op |-> "mersenneTwister", a |-> 0,
                                    b |-> 0, ret |-> r.ret])
    /\ UNCHANGED <<lib, pc, how, reseed, assigned, minted>>

Next ==
    \/ \E s \in Seeds : SetSeed(s)
    \/ GetSeed
    \/ GenerateRandomSeed
    \/ \E args \in IntArgs : GetInt(args[1], args[2])
    \/ \E args \in RealArgs : GetDouble(args[1], args[2])
    \/ UseGenerator

Spec == Init /\ [][Next]_vars

\* --------------------------------------------------------------- helpers
\* every recorded draw is a getInt or a getDouble
OnlySampling == \A k \in 1 .. Len(hist) : hist[k].op \in SamplingOps

\* the last call was a sampling call and it returned
Sampled == pc = "running" /\ call.op \in SamplingOps

\* the generator after the recorded drawing calls, starting from mt
RECURSIVE Replay(_, _, _)
Replay(mt, calls, l) ==
    IF calls = <<>> THEN mt
    ELSE LET c == Head(calls)
             nxt == IF c.op = "getInt" THEN UniformInt(l, mt, c.a, c.b).mt
                    ELSE IF c.op = "getDouble" THEN UniformReal(mt, c.a, c.b).mt
                    ELSE MtDraw(mt).mt
         IN  Replay(nxt, Tail(calls), l)

\* to is reached from mt by one draw or more (at most fuel + 1 are tried)
RECURSIVE Reaches(_, _, _)
Reaches(mt, to, fuel) ==
    LET nxt == MtDraw(mt).mt
    IN  IF nxt = to THEN TRUE
        ELSE IF fuel = 0 THEN FALSE
        ELSE Reaches(nxt, to, fuel - 1)

\* to is a later position of the sequence that from is in
Later(from, to) == Reaches(from, to, LoopFuel)

\* this step is a call of a sampling operation
SamplingStep == call'.op \in SamplingOps /\ (hist' # hist \/ pc' # pc)

\* ----------------------------------------------------------------- claims

\* C1: two instances both built by RNG(s) and given the same getInt and
\* getDouble calls return the same value at every position.
C1_Determinism ==
    (how = "seeded" /\ reseed = "never" /\ ~minted /\ OnlySampling /\ Sampled)
        => call.ret = twinRet

C1_Witness ==
    /\ how = "seeded" /\ reseed = "never" /\ ~minted /\ Sampled
    /\ Len(hist) >= 2
    /\ hist[1].op = "getInt" /\ hist[1].a < hist[1].b
    /\ hist[2].op = "getDouble" /\ hist[2].a < hist[2].b
    /\ call.ret = twinRet

\* C2: after setSeed(s) on an instance in any state, the sampling calls
\* return what they return on a fresh RNG(s), and the generator is that of
\* the fresh instance: nothing of the earlier generator state is left.
C2_ReseedResets ==
    (reseed # "never" /\ pc = "running" /\ OnlySampling)
        => /\ rng.m_mt = twin.m_mt
           /\ (call.op \in SamplingOps => call.ret = twinRet)

C2_Witness ==
    /\ reseed = "used" /\ Sampled
    /\ Len(hist) >= 2 /\ OnlySampling
    /\ call.ret = twinRet

\* C3: the generator is always the one seeded from the stored seed and
\* moved on by the draws made since that seed was assigned.
C3_SeedGeneratorConsistent ==
    rng.m_mt = Replay(MtSeed(rng.m_seed), hist, lib)

C3_Witness ==
    /\ how = "default" /\ reseed = "used"
    /\ Len(hist) >= 2
    /\ rng.m_mt # MtSeed(rng.m_seed)

\* C4: on an instance built by RNG(s), getSeed returns the argument of the
\* last setSeed, or s when there was none, whatever other calls were made.
C4_GetSeedLastAssigned ==
    how = "seeded"
        => /\ getSeed(rng) = assigned
           /\ (call.op = "getSeed" => call.ret = assigned)

C4_Witness ==
    /\ how = "seeded" /\ reseed = "used" /\ minted
    /\ Len(hist) >= 1
    /\ call.op = "getSeed" /\ call.ret = assigned

\* C5: generateRandomSeed changes neither seed nor generator: after it the
\* instance has the seed and the generator of the twin, on which it was
\* never called, and goes on returning what the twin returns.
C5_RandomSeedIsolated ==
    (minted /\ pc = "running")
        => /\ getSeed(rng) = getSeed(twin)
           /\ rng.m_mt = twin.m_mt
           /\ (call.op \in SamplingOps => call.ret = twinRet)

C5_Witness ==
    /\ minted /\ Sampled
    /\ call.a < call.b
    /\ call.ret = twinRet
    /\ Len(hist) >= 2

\* C6: getInt(min, max) with min <= max returns a value in [min, max].
C6_GetIntInRange ==
    \A k \in 1 .. Len(hist) :
        (hist[k].op = "getInt" /\ hist[k].a <= hist[k].b)
            => (hist[k].a <= hist[k].ret /\ hist[k].ret <= hist[k].b)

\* both endpoints of one range returned, and a range of one value
C6_Witness ==
    /\ Len(hist) >= 2
    /\ hist[1].op = "getInt" /\ hist[2].op = "getInt"
    /\ hist[1].a < hist[1].b
    /\ hist[1].a = hist[2].a /\ hist[1].b = hist[2].b
    /\ hist[1].ret = hist[1].a /\ hist[2].ret = hist[2].b

\* C7: a sampling call with min > max does not abort, and either returns
\* what the call with the bounds swapped returns or reports InvalidRange
\* and leaves seed and generator as they were.
C7_InvalidRangeHandled ==
    [][(SamplingStep /\ call'.a > call'.b)
        => /\ pc' # "aborted"
           /\ \/ /\ pc' = "running"
                 /\ call'.op = "getInt"
                 /\ call'.ret = getInt(rng, lib, call'.b, call'.a).ret
              \/ /\ pc' = "running"
                 /\ call'.op = "getDouble"
                 /\ call'.ret = getDouble(rng, call'.b, call'.a).ret
              \/ /\ pc' = "InvalidRange"
                 /\ rng'.m_seed = rng.m_seed /\ rng'.m_mt = rng.m_mt]_vars

\* C8: RNG() stores the value it reads from the device as the seed and
\* seeds the generator from it, so that RNG(r.getSeed()) has the generator
\* of r = RNG() and returns what r returns.
C8_DefaultConstructed ==
    (how = "default" /\ reseed = "never" /\ pc = "running" /\ OnlySampling)
        => /\ getSeed(rng) = assigned
           /\ rng.m_mt = twin.m_mt
           /\ (call.op \in SamplingOps => call.ret = twinRet)

C8_Witness ==
    /\ how = "default" /\ reseed = "never" /\ Sampled /\ OnlySampling
    /\ Len(hist) >= 2
    /\ twin.m_seed = rng.m_seed
    /\ call.ret = twinRet

\* C9 as claimed: every sampling call with min <= max, the range of one
\* value included, moves the generator to a later position, and the
\* generator after the call differs from the one before.
C9_SamplingAdvances ==
    [][(SamplingStep /\ call'.a <= call'.b)
        => (rng'.m_mt # rng.m_mt /\ Later(rng.m_mt, rng'.m_mt))]_vars

\* C9 as it holds: every getDouble call with min <= max and every getInt
\* call with min < max moves the generator to a later position, which
\* differs from the one before; getInt(m, m) either does the same or leaves
\* the generator as it is, as the standard library has it.
C9_SamplingAdvancesUnlessDegenerate ==
    [][(SamplingStep /\ call'.a <= call'.b)
        => \/ /\ call'.op = "getInt" /\ call'.a = call'.b
              /\ rng'.m_mt = rng.m_mt
           \/ rng'.m_mt # rng.m_mt /\ Later(rng.m_mt, rng'.m_mt)]_vars

C9_Witness ==
    /\ Sampled /\ Len(hist) >= 2
    /\ hist[1].op = "getInt" /\ hist[1].a = hist[1].b
    /\ hist[2].op = "getInt" /\ hist[2].a < hist[2].b
    /\ rng.m_mt # MtSeed(rng.m_seed)

\* C10: a draw through the reference that mersenneTwister() returns reads
\* the word the instance's generator is at and moves that generator on, so
\* that the next sampling call reads a later position; the seed stays.
C10_ReferenceAliases ==
    [][(call'.op = "mersenneTwister" /\ hist' # hist)
        => /\ call'.ret = MtDraw(rng.m_mt).out
           /\ rng'.m_mt = MtDraw(rng.m_mt).mt
           /\ getInt(rng', lib, IntMin, IntMax).ret
                = getInt(getInt(rng, lib, IntMin, IntMax).impl, lib,
                         IntMin, IntMax).ret
           /\ getSeed(rng') = getSeed(rng)]_vars

C10_Witness ==
    /\ pc = "running" /\ Len(hist) >= 2
    /\ hist[1].op = "mersenneTwister"
    /\ hist[2].op = "getInt" /\ hist[2].a = IntMin /\ hist[2].b = IntMax
    /\ hist[2].ret # ToInt(hist[1].ret)
=============================================================================
